---- MODULE Spec2Model ----
(***************************************************************************)
(* Institutional Portfolio Analytics: the dashboard script (app.py), the   *)
(* constrained allocator (portfolio/optimizer.py), the performance         *)
(* evaluator (analysis/performance.py) and the client archetypes           *)
(* (portfolio/clients.py).                                                 *)
(*                                                                         *)
(* Numbers.  Weights and targets are integers in units of 1/Scale, one     *)
(* decimal finer than the 5 decimals clean_weights rounds to, so that the  *)
(* rounding has something to round.  Returns, portfolio values and         *)
(* statistics are exact rationals [n, d] in lowest terms; a float result   *)
(* is a record whose field k says "fin", "nan", "inf" or "ninf", the       *)
(* outcomes IEEE division gives.                                           *)
(***************************************************************************)
EXTENDS Integers, Sequences, FiniteSets, TLC

VARIABLES pc, error, calls,
          assets, target_allocation, constraints, solver_status, raw_weights,
          weights, prices, performance,
          investment_amount, rate, path,
          mc_years, mc_sims, returns, paths, report

vars == <<pc, error, calls,
          assets, target_allocation, constraints, solver_status, raw_weights,
          weights, prices, performance,
          investment_amount, rate, path,
          mc_years, mc_sims, returns, paths, report>>

(***************************************************************************)
(* Bounds of the model                                                     *)
(***************************************************************************)
\* The solver's answer is tried at each bound and up to MaxJitter units inside it.
MaxJitter == 6

\* The price tables of the performance evaluator have 1..MaxObs rows.
MaxObs == 3

\* Investment amounts 1..MaxAmount (in thousands: the input's step is 1000).
MaxAmount == 5

\* Growth factors 1 + rate = p / q with p in 0..MaxRateNum.
MaxRateNum == 5

\* monte_carlo is called with years in 0..MCYears and sims in 1..MCSims.
MCYears == 2

MCSims == 3

\* The horizon and the number of paths of the simulation inside a whole run.
RunYears == 1

RunSims == 2

(***************************************************************************)
(* Arithmetic helpers                                                      *)
(***************************************************************************)
Abs(x) == IF x < 0 THEN -x ELSE x

Max(a, b) == IF a >= b THEN a ELSE b

Min(a, b) == IF a <= b THEN a ELSE b

RECURSIVE GCD(_, _)
GCD(a, b) == IF b = 0 THEN a ELSE GCD(b, a % b)

RECURSIVE SumSeq(_)
SumSeq(s) == IF s = <<>> THEN 0 ELSE Head(s) + SumSeq(Tail(s))

\* The value nothing has been computed into yet.
None == [k |-> "none"]

(***************************************************************************)
(* portfolio/optimizer.py                                                  *)
(***************************************************************************)
\* ef.clean_weights() is called with the library defaults: rounding = 5
\* decimals, cutoff = 1e-4.
ROUNDING == 5

Scale == 10 ^ (ROUNDING + 1)

RoundUnit == Scale \div (10 ^ ROUNDING)

CUTOFF == Scale \div 10000

Pct(p) == (p * Scale) \div 100

MIN_WEIGHT == Pct(5)

MAX_WEIGHT == Pct(70)

BAND == Pct(15)

\* The fixed universe the dashboard downloads.
Tickers == {"SPY", "AGG", "VEA", "GLD"}

\* assets.index(asset): the position of the ticker in the column order of the
\* price data (1-based here, 0-based in Python); 0 when it is absent, where
\* Python raises ValueError.
AssetsIndexShifted(as, asset) ==
    IF \E i \in 1..Len(as) : as[i] = asset
    THEN ((CHOOSE i \in 1..Len(as) : as[i] = asset) % Len(as)) + 1
    ELSE 0

AssetsIndex(as, asset) ==
    IF \E i \in 1..Len(as) : as[i] = asset
    THEN CHOOSE i \in 1..Len(as) : as[i] = asset
    ELSE 0

\* The band forgotten: only the global minimum.
lower_bound_global_only(target_weight) == MIN_WEIGHT

\* The band added where it is subtracted.
lower_bound_band_added(target_weight) == Max(MIN_WEIGHT, target_weight + BAND)

lower_bound(target_weight) == Max(MIN_WEIGHT, target_weight - BAND)

upper_bound(target_weight) == Min(MAX_WEIGHT, target_weight + BAND)

\* The constraints the function hands to the solver, in the order it adds them.
\* idx = 0 is a constraint on the whole vector (w >= MIN_WEIGHT), idx = i one on w[i].
GlobalConstraints ==
    << [kind |-> "ge", idx |-> 0, bound |-> MIN_WEIGHT],
       [kind |-> "le", idx |-> 0, bound |-> MAX_WEIGHT] >>

RECURSIVE TargetConstraints(_, _)
TargetConstraints(as, alloc) ==
    IF alloc = <<>> THEN <<>>
    ELSE LET item == Head(alloc)
             idx  == AssetsIndex(as, item.asset)
         IN  << [kind |-> "ge", idx |-> idx, bound |-> lower_bound(item.target)],
                [kind |-> "le", idx |-> idx, bound |-> upper_bound(item.target)] >>
             \o TargetConstraints(as, Tail(alloc))

\* The first asset of the allocation that is not a column of the price data:
\* the loop raises there and the optimization is never reached.
UnknownAsset(as, alloc) ==
    \E k \in 1..Len(alloc) : AssetsIndex(as, alloc[k].asset) = 0

BuildConstraints(as, alloc) == GlobalConstraints \o TargetConstraints(as, alloc)

\* The box the constraints leave for w[i]; EfficientFrontier's own default
\* weight_bounds are (0, 1).
BoxLo(cons, i) ==
    LET bs == {cons[k].bound : k \in {k \in 1..Len(cons) :
                  cons[k].kind = "ge" /\ cons[k].idx \in {0, i}}} \cup {0}
    IN  CHOOSE b \in bs : \A c \in bs : c <= b

BoxHi(cons, i) ==
    LET bs == {cons[k].bound : k \in {k \in 1..Len(cons) :
                  cons[k].kind = "le" /\ cons[k].idx \in {0, i}}} \cup {Scale}
    IN  CHOOSE b \in bs : \A c \in bs : b <= c

\* All vectors of length n whose coordinate i is drawn from C[i], coordinate f left 0.
RECURSIVE Tuples(_, _, _)
Tuples(C, n, f) ==
    IF n = 0 THEN {<<>>}
    ELSE {Append(s, x) : s \in Tuples(C, n - 1, f),
                         x \in IF n = f THEN {0} ELSE C[n]}

\* ef.max_sharpe(): the solver is a library; which feasible point maximises the
\* Sharpe ratio depends on the price data, so the model lets it return any point
\* of the feasible set that has all coordinates but one at a bound or j units
\* inside it (the vertices of the feasible set are among them, so the set is
\* empty exactly when the constraints are infeasible), with weights summing to 1.
SolverPoints(cons, n, j) ==
    LET lo == [i \in 1..n |-> BoxLo(cons, i)]
        hi == [i \in 1..n |-> BoxHi(cons, i)]
        C  == [i \in 1..n |->
                {x \in {lo[i], lo[i] + j, hi[i], hi[i] - j} : lo[i] <= x /\ x <= hi[i]}]
        Fill(s, f) == [s EXCEPT ![f] = Scale - SumSeq(s)]
    IN  {w \in UNION {{Fill(s, f) : s \in Tuples(C, n, f)} : f \in 1..n} :
            \A i \in 1..n : lo[i] <= w[i] /\ w[i] <= hi[i]}

\* np.round(x, 5): to the nearest multiple of RoundUnit, ties to the even one.
RoundHalfEven(x, m) ==
    LET q == x \div m
        r == x % m
    IN  IF 2 * r < m THEN q * m
        ELSE IF 2 * r > m THEN (q + 1) * m
        ELSE IF q % 2 = 0 THEN q * m ELSE (q + 1) * m

\* A mis-set cutoff: everything below 10% is snapped to zero.
clean_weight_wide_cutoff(w) ==
    IF Abs(w) < Pct(10) THEN 0 ELSE RoundHalfEven(w, RoundUnit)

\* ef.clean_weights(): |w| < cutoff becomes 0, then rounding; no renormalisation.
clean_weight(w) ==
    IF Abs(w) < CUTOFF THEN 0 ELSE RoundHalfEven(w, RoundUnit)

\* The returned dict: ticker -> cleaned weight, in the order of the columns.
clean_weights(as, w) ==
    [a \in {as[i] : i \in 1..Len(as)} |-> clean_weight(w[AssetsIndex(as, a)])]

(***************************************************************************)
(* Exact rationals and float outcomes                                      *)
(***************************************************************************)
Rat(n, d) ==
    LET g == GCD(Abs(n), Abs(d))
        s == IF d < 0 THEN -1 ELSE 1
    IN  [n |-> (s * n) \div g, d |-> (s * d) \div g]

RAdd(a, b) ==
    LET g == GCD(a.d, b.d)
    IN  Rat(a.n * (b.d \div g) + b.n * (a.d \div g), (a.d \div g) * b.d)

RNeg(a) == [n |-> -a.n, d |-> a.d]

RSub(a, b) == RAdd(a, RNeg(b))

\* Cross-cancelled before multiplying, so the products stay small.
RMul(a, b) ==
    LET g1 == GCD(Abs(a.n), b.d)
        g2 == GCD(Abs(b.n), a.d)
    IN  Rat((a.n \div g1) * (b.n \div g2), (a.d \div g2) * (b.d \div g1))

\* b # 0
RDiv(a, b) == RMul(a, IF b.n < 0 THEN [n |-> -b.d, d |-> -b.n] ELSE [n |-> b.d, d |-> b.n])

RLe(a, b) == a.n * b.d <= b.n * a.d

RLt(a, b) == a.n * b.d < b.n * a.d

RECURSIVE RSumSeq(_)
RSumSeq(s) == IF s = <<>> THEN Rat(0, 1) ELSE RAdd(Head(s), RSumSeq(Tail(s)))

Fin(r) == [k |-> "fin", v |-> r]

NaN == [k |-> "nan", v |-> Rat(0, 1)]

Inf == [k |-> "inf", v |-> Rat(0, 1)]

NegInf == [k |-> "ninf", v |-> Rat(0, 1)]

\* numpy float64 division of two values that are finite or NaN: x/0 is +-inf,
\* 0/0 is NaN, and nothing is raised.
FDiv(a, b) ==
    IF a.k = "nan" \/ b.k = "nan" THEN NaN
    ELSE IF b.v.n = 0
         THEN (IF a.v.n = 0 THEN NaN ELSE IF a.v.n > 0 THEN Inf ELSE NegInf)
         ELSE Fin(RDiv(a.v, b.v))

(***************************************************************************)
(* analysis/performance.py                                                 *)
(***************************************************************************)
TRADING_DAYS == 252

\* The number of rows of a price table (every column has as many).
Rows(price_data) ==
    IF DOMAIN price_data = {} THEN 0
    ELSE Len(price_data[CHOOSE a \in DOMAIN price_data : TRUE])

\* price_data.pct_change().dropna(): row t of the result is the change from
\* row t to row t + 1; the first row of pct_change is NaN and is dropped.
pct_change(price_data) ==
    [a \in DOMAIN price_data |->
        [t \in 1..(Rows(price_data) - 1) |->
            RSub(Rat(price_data[a][t + 1], price_data[a][t]), Rat(1, 1))]]

RECURSIVE RSumOver(_, _)
RSumOver(S, f) ==
    IF S = {} THEN Rat(0, 1)
    ELSE LET a == CHOOSE x \in S : TRUE
         IN  RAdd(f[a], RSumOver(S \ {a}, f))

\* returns.dot(weights): the weighted sum per row; weights are in units of 1/Scale.
dot(rets, w) ==
    [t \in 1..Rows(rets) |->
        RSumOver(DOMAIN rets, [a \in DOMAIN rets |-> RMul(rets[a][t], Rat(w[a], Scale))])]

\* Series.mean(): NaN of an empty series.
mean(xs) ==
    IF Len(xs) = 0 THEN NaN ELSE Fin(RMul(RSumSeq(xs), Rat(1, Len(xs))))

\* The square of Series.std() (ddof = 1): NaN with fewer than two values.
variance(xs) ==
    IF Len(xs) <= 1 THEN NaN
    ELSE LET m == mean(xs).v
             sq == [t \in 1..Len(xs) |-> RMul(RSub(xs[t], m), RSub(xs[t], m))]
         IN  Fin(RMul(RSumSeq(sq), Rat(1, Len(xs) - 1)))

\* (1 + portfolio_returns).cumprod()
RECURSIVE cumprod(_)
cumprod(xs) ==
    IF Len(xs) = 0 THEN <<>>
    ELSE LET front == cumprod(SubSeq(xs, 1, Len(xs) - 1))
             last  == RAdd(Rat(1, 1), xs[Len(xs)])
         IN  Append(front, IF front = <<>> THEN last ELSE RMul(front[Len(front)], last))

\* cumulative.cummax()
RECURSIVE cummax(_)
cummax(xs) ==
    IF Len(xs) = 0 THEN <<>>
    ELSE LET front == cummax(SubSeq(xs, 1, Len(xs) - 1))
             last  == xs[Len(xs)]
         IN  Append(front, IF front = <<>> \/ RLe(front[Len(front)], last)
                           THEN last ELSE front[Len(front)])

\* Series.min(): the least value that is not NaN; NaN when there is none.
series_min(fs) ==
    LET vals == {fs[t] : t \in {t \in 1..Len(fs) : fs[t].k # "nan"}}
    IN  IF vals = {} THEN NaN
        ELSE IF \E x \in vals : x.k = "ninf" THEN NegInf
        ELSE IF \A x \in vals : x.k = "inf" THEN Inf
        ELSE LET fin == {x \in vals : x.k = "fin"}
             IN  CHOOSE x \in fin : \A y \in fin : RLe(x.v, y.v)

\* The volatility is std * sqrt(252), irrational in general: the record holds
\* its square in sq, and k for the float outcome.
\* The Sharpe ratio is annual_return / volatility: a finite one keeps the
\* numerator in num and the square of the denominator in den_sq.
sharpe_of(annual_return, vol_sq) ==
    IF annual_return.k = "nan" \/ vol_sq.k = "nan" THEN [k |-> "nan"]
    ELSE IF vol_sq.v.n = 0
         THEN (IF annual_return.v.n = 0 THEN [k |-> "nan"]
               ELSE IF annual_return.v.n > 0 THEN [k |-> "inf"] ELSE [k |-> "ninf"])
         ELSE [k |-> "fin", num |-> annual_return.v, den_sq |-> vol_sq.v]

\* calculate_portfolio_performance(price_data, weights).  returns.dot(weights)
\* raises ValueError when the weights' keys are not the columns of the prices.
calculate_portfolio_performance(price_data, w) ==
    IF DOMAIN w # DOMAIN price_data THEN [k |-> "ValueError"]
    ELSE
    LET portfolio_returns == dot(pct_change(price_data), w)
        m             == mean(portfolio_returns)
        annual_return == IF m.k = "nan" THEN NaN ELSE Fin(RMul(m.v, Rat(TRADING_DAYS, 1)))
        var           == variance(portfolio_returns)
        volatility    == IF var.k = "nan" THEN NaN
                         ELSE [k |-> "fin", sq |-> RMul(var.v, Rat(TRADING_DAYS, 1))]
        vol_sq        == IF var.k = "nan" THEN NaN ELSE Fin(volatility.sq)
        cumulative    == cumprod(portfolio_returns)
        running_max   == cummax(cumulative)
        drawdown      == [t \in 1..Len(cumulative) |->
                            LET q == FDiv(Fin(cumulative[t]), Fin(running_max[t]))
                            IN  IF q.k = "fin" THEN Fin(RSub(q.v, Rat(1, 1))) ELSE q]
    IN  [k |-> "ok",
         annual_return |-> annual_return,
         volatility    |-> volatility,
         sharpe_ratio  |-> sharpe_of(annual_return, vol_sq),
         max_drawdown  |-> series_min(drawdown)]

(***************************************************************************)
(* portfolio/clients.py                                                    *)
(***************************************************************************)
\* target_allocation of each archetype, in the order the dict lists the assets.
Allocation(spy, agg, vea, gld) ==
    << [asset |-> "SPY", target |-> spy], [asset |-> "AGG", target |-> agg],
       [asset |-> "VEA", target |-> vea], [asset |-> "GLD", target |-> gld] >>

clients ==
    [DC        |-> Allocation(Pct(70), Pct(20), Pct(5), Pct(5)),
     DB        |-> Allocation(Pct(45), Pct(40), Pct(10), Pct(5)),
     Endowment |-> Allocation(Pct(60), Pct(20), Pct(10), Pct(10))]

(***************************************************************************)
(* app.py: growth assumptions and Monte Carlo simulation                   *)
(***************************************************************************)
years == 10

\* np.arange(0, years + 1)
years_array == 0..years

\* b ** t for a rational b
RPow(b, t) ==
    IF t = 0 THEN Rat(1, 1)
    ELSE LET mag == Rat(Abs(b.n) ^ t, b.d ^ t)
         IN  IF b.n < 0 /\ t % 2 = 1 THEN RNeg(mag) ELSE mag

\* np.arange(1, years + 1) in place of years_array.
grow_from_year_one(amount, r) ==
    [t \in 1..years |-> RMul(Rat(amount, 1), RPow(RAdd(Rat(1, 1), r), t))]

\* grow(amount, rate) = amount * (1 + rate) ** years_array
grow(amount, r) ==
    [t \in years_array |-> RMul(Rat(amount, 1), RPow(RAdd(Rat(1, 1), r), t))]

\* A loop that compounds every column with the draw of the first column.
RECURSIVE monte_carlo_rows_first_column(_, _, _, _)
monte_carlo_rows_first_column(initial, rets, t, sims) ==
    IF t = 0 THEN [s \in 1..sims |-> Rat(initial, 1)]
    ELSE LET prev == monte_carlo_rows_first_column(initial, rets, t - 1, sims)
         IN  [s \in 1..sims |-> RMul(prev[s], RAdd(Rat(1, 1), rets[t - 1][1]))]

\* Row t of paths in monte_carlo: paths[0] = initial,
\* paths[t] = paths[t - 1] * (1 + returns[t - 1]), elementwise over the sims columns.
\* rets is the (years, sims) array np.random.normal drew, rows 0..years-1.
RECURSIVE monte_carlo_rows(_, _, _, _)
monte_carlo_rows(initial, rets, t, sims) ==
    IF t = 0 THEN [s \in 1..sims |-> Rat(initial, 1)]
    ELSE LET prev == monte_carlo_rows(initial, rets, t - 1, sims)
         IN  [s \in 1..sims |-> RMul(prev[s], RAdd(Rat(1, 1), rets[t - 1][s]))]

\* monte_carlo(initial, mean, vol, years, sims): the (years + 1, sims) array.
monte_carlo(initial, rets, yrs, sims) ==
    [t \in 0..yrs |-> monte_carlo_rows(initial, rets, t, sims)]

\* xs in ascending order (np.percentile sorts a copy).
RECURSIVE SortRat(_)
SortRat(xs) ==
    IF Len(xs) = 0 THEN <<>>
    ELSE LET i == CHOOSE i \in 1..Len(xs) : \A k \in 1..Len(xs) : RLe(xs[i], xs[k])
             rest == [k \in 1..(Len(xs) - 1) |-> IF k < i THEN xs[k] ELSE xs[k + 1]]
         IN  <<xs[i]>> \o SortRat(rest)

\* The linear interpolation of np.percentile at position (n - 1) * q / 100 of
\* the values xs, taken in the order given (0-based a[0..n-1] in numpy).
interpolate(xs, q) ==
    LET n    == Len(xs)
        pos  == Rat((n - 1) * q, 100)
        lo   == pos.n \div pos.d
        frac == RSub(pos, Rat(lo, 1))
    IN  IF lo + 1 >= n THEN xs[n]
        ELSE RAdd(xs[lo + 1], RMul(frac, RSub(xs[lo + 2], xs[lo + 1])))

\* The interpolation applied to the values as they stand, unsorted.
percentile_unsorted(xs, q) == interpolate(xs, q)

\* np.percentile(xs, q): the interpolation over the sorted values.
percentile(xs, q) == interpolate(SortRat(xs), q)

\* f"{x:,.0f}": the nearest integer, ties to the even one.
format_0f(x) ==
    LET q == x.n \div x.d
        r == RSub(x, Rat(q, 1))
    IN  IF RLt(r, Rat(1, 2)) THEN q
        ELSE IF RLt(Rat(1, 2), r) THEN q + 1
        ELSE IF q % 2 = 0 THEN q ELSE q + 1

\* A row of paths as a sequence (the sims values of one year).
RowSeq(row, sims) == [s \in 1..sims |-> row[s]]

(***************************************************************************)
(* Inputs                                                                  *)
(***************************************************************************)
\* Column orders of the price table: alphabetical, and as requested.
AssetOrders == { <<"AGG", "GLD", "SPY", "VEA">>, <<"SPY", "AGG", "VEA", "GLD">> }

\* Target weights tried per asset: on and off the 5-decimal grid, and one
\* above 0.85.
TargetChoices == {Pct(5), Pct(20) + 4, Pct(45), Pct(90)}

TargetAllocations ==
    {Allocation(a, b, c, d) : a \in TargetChoices, b \in TargetChoices,
                              c \in TargetChoices, d \in TargetChoices}
    \cup {clients.DC, clients.DB, clients.Endowment}
    \cup { <<>>,
           << [asset |-> "AGG", target |-> Pct(45)] >>,
           << [asset |-> "SPY", target |-> Pct(45)],
              [asset |-> "BTC", target |-> Pct(20)] >> }

\* A price of 0 stands for a missing value (NaN) of the download.
Table(cols, spy, agg, vea, gld) ==
    [columns |-> cols,
     data |-> [a \in Tickers |-> CASE a = "SPY" -> spy [] a = "AGG" -> agg
                                   [] a = "VEA" -> vea [] OTHER -> gld]]

Downloads ==
    { Table(o, <<1, 2, 4>>, <<2, 2, 2>>, <<4, 2, 4>>, <<1, 1, 2>>) : o \in AssetOrders }
    \cup { Table(o, <<1, 2, 4>>, <<2, 0, 2>>, <<4, 2, 1>>, <<1, 1, 2>>) : o \in AssetOrders }
    \cup { Table(o, <<2, 2, 2>>, <<1, 1, 1>>, <<4, 4, 4>>, <<1, 1, 1>>) : o \in AssetOrders }

\* data.dropna(): the rows with a missing value are dropped.
dropna(table) ==
    LET n    == Rows(table.data)
        keep == {t \in 1..n : \A a \in DOMAIN table.data : table.data[a][t] # 0}
        RECURSIVE Pick(_, _)
        Pick(col, t) == IF t = 0 THEN <<>>
                        ELSE IF t \in keep THEN Append(Pick(col, t - 1), col[t])
                        ELSE Pick(col, t - 1)
    IN  [columns |-> table.columns,
         data |-> [a \in DOMAIN table.data |-> Pick(table.data[a], n)]]

PriceLevels == {1, 2, 4}

PerfTickers == {"SPY", "AGG"}

\* The price tables of the evaluator: two columns, 1..MaxObs rows.
PerfTables ==
    UNION { { [columns |-> <<"AGG", "SPY">>, data |-> d] :
                d \in [PerfTickers -> [1..n -> PriceLevels]] } : n \in 1..MaxObs }

\* Weight vectors over the two columns, summing to 1, and one with a foreign key.
PerfWeights ==
    { [a \in PerfTickers |-> IF a = "SPY" THEN Pct(25 * q) ELSE Pct(100 - 25 * q)] : q \in 0..4 }
    \cup { [a \in {"SPY", "GLD"} |-> Pct(50)] }

GrowRates ==
    { RSub(Rat(p, q), Rat(1, 1)) : p \in 0..MaxRateNum, q \in 1..4 }

\* What np.random.normal may draw: any real; two of them here, one below -1.
DrawSet == { Rat(-3, 2), Rat(1, 2) }

NoCalls == [load |-> 0, optimize |-> 0, perform |-> 0, growth |-> 0,
            montecarlo |-> 0, report |-> 0]

(***************************************************************************)
(* The steps of a run of app.py                                            *)
(***************************************************************************)
\* An uncaught exception ends the script: nothing after it runs.
Raise(kind) == /\ error' = kind
               /\ pc' = "failed"

\* prices = load_market_data(): the download raises, or returns a table.
LoadMarketData ==
    /\ pc = "load"
    /\ calls' = [calls EXCEPT !.load = @ + 1]
    /\ \/ /\ Raise("DownloadError")
          /\ UNCHANGED prices
       \/ /\ \E table \in Downloads : prices' = dropna(table)
          /\ pc' = "optimize"
          /\ UNCHANGED error
    /\ UNCHANGED <<assets, target_allocation, constraints, solver_status, raw_weights,
                   weights, performance, investment_amount, rate, path,
                   mc_years, mc_sims, returns, paths, report>>

\* What ef.max_sharpe() can end with: an error of the solver itself, an
\* infeasible problem, or a feasible point.
SolverOutcomes(cons, n, jmax) ==
    LET points == UNION {SolverPoints(cons, n, j) : j \in 0..jmax}
    IN  {[status |-> "solver_error", w |-> <<>>]}
        \cup (IF points = {} THEN {[status |-> "infeasible", w |-> <<>>]}
              ELSE {[status |-> "optimal", w |-> w] : w \in points})

\* A variant that answers a failed optimization with the target allocation itself.
OptimizePortfolioDefaulting(jmax) ==
    /\ pc = "optimize"
    /\ calls' = [calls EXCEPT !.optimize = @ + 1]
    /\ assets' = prices.columns
    /\ constraints' = None
    /\ solver_status' = "solver_error"
    /\ raw_weights' = None
    /\ weights' = [a \in {target_allocation[k].asset : k \in 1..Len(target_allocation)} |->
                     target_allocation[CHOOSE k \in 1..Len(target_allocation) :
                                          target_allocation[k].asset = a].target]
    /\ pc' = "perform"
    /\ UNCHANGED <<error, target_allocation, prices, performance, investment_amount, rate,
                   path, mc_years, mc_sims, returns, paths, report>>

\* weights, _ = optimize_portfolio(prices, client["target_allocation"]).
\* ef.portfolio_performance() only reads the solved weights, and the caller
\* drops its result.  jmax is how far inside a bound the solver's answer may sit.
OptimizePortfolio(jmax) ==
    /\ pc = "optimize"
    /\ calls' = [calls EXCEPT !.optimize = @ + 1]
    /\ assets' = prices.columns
    /\ IF UnknownAsset(prices.columns, target_allocation)
       THEN /\ Raise("ValueError")
            /\ UNCHANGED <<constraints, solver_status, raw_weights, weights>>
       ELSE /\ constraints' = BuildConstraints(prices.columns, target_allocation)
            /\ \E o \in SolverOutcomes(constraints', Len(prices.columns), jmax) :
                  /\ solver_status' = o.status
                  /\ IF o.status = "optimal"
                     THEN /\ raw_weights' = o.w
                          /\ weights' = clean_weights(prices.columns, o.w)
                          /\ pc' = "perform"
                          /\ UNCHANGED error
                     ELSE /\ Raise("OptimizationError")
                          /\ UNCHANGED <<raw_weights, weights>>
    /\ UNCHANGED <<target_allocation, prices, performance, investment_amount, rate, path,
                   mc_years, mc_sims, returns, paths, report>>

\* performance = calculate_portfolio_performance(prices, weights)
CalculatePerformance ==
    /\ pc = "perform"
    /\ calls' = [calls EXCEPT !.perform = @ + 1]
    /\ LET result == calculate_portfolio_performance(prices.data, weights)
       IN  IF result.k = "ValueError"
           THEN /\ Raise("ValueError")
                /\ UNCHANGED performance
           ELSE /\ performance' = result
                /\ pc' = "growth"
                /\ UNCHANGED error
    /\ UNCHANGED <<assets, target_allocation, constraints, solver_status, raw_weights,
                   weights, prices, investment_amount, rate, path,
                   mc_years, mc_sims, returns, paths, report>>

\* The growth scenarios: grow(investment_amount, rate) for each scenario rate.
\* The model computes one scenario, its rate drawn from GrowRates: the tenth
\* power of a rate in percent does not fit TLC's integers.
GrowthScenarios ==
    /\ pc = "growth"
    /\ calls' = [calls EXCEPT !.growth = @ + 1]
    /\ path' = grow(investment_amount, rate)
    /\ pc' = "montecarlo"
    /\ UNCHANGED <<error, assets, target_allocation, constraints, solver_status, raw_weights,
                   weights, prices, performance, investment_amount, rate,
                   mc_years, mc_sims, returns, paths, report>>

\* end_mc = monte_carlo(investment_amount, mean, vol, years): one draw per year
\* and path, then the compounding.
MonteCarloSimulation ==
    /\ pc = "montecarlo"
    /\ calls' = [calls EXCEPT !.montecarlo = @ + 1]
    /\ \E rets \in [0..(mc_years - 1) -> [1..mc_sims -> DrawSet]] :
          /\ returns' = rets
          /\ paths' = monte_carlo(investment_amount, rets, mc_years, mc_sims)
    /\ pc' = "report"
    /\ UNCHANGED <<error, assets, target_allocation, constraints, solver_status, raw_weights,
                   weights, prices, performance, investment_amount, rate, path,
                   mc_years, mc_sims, report>>

\* "Monte Carlo Outcomes (Year 10)": the percentiles of end_mc[-1], formatted.
MonteCarloOutcomes ==
    /\ pc = "report"
    /\ calls' = [calls EXCEPT !.report = @ + 1]
    /\ LET last == RowSeq(paths[mc_years], mc_sims)
       IN  report' = [worst  |-> format_0f(percentile(last, 5)),
                      median |-> format_0f(percentile(last, 50)),
                      best   |-> format_0f(percentile(last, 95))]
    /\ pc' = "done"
    /\ UNCHANGED <<error, assets, target_allocation, constraints, solver_status, raw_weights,
                   weights, prices, performance, investment_amount, rate, path,
                   mc_years, mc_sims, returns, paths>>

(***************************************************************************)
(* Specifications                                                          *)
(***************************************************************************)
Blank ==
    /\ error = "none"
    /\ calls = NoCalls
    /\ assets = None
    /\ constraints = None
    /\ solver_status = "none"
    /\ raw_weights = None
    /\ performance = None
    /\ path = None
    /\ returns = None
    /\ paths = None
    /\ report = None

\* A whole run: the client is one of the archetypes of the select box.
Init ==
    /\ Blank
    /\ pc = "load"
    /\ \E key \in DOMAIN clients : target_allocation = clients[key]
    /\ prices = None
    /\ weights = None
    /\ investment_amount \in {1, 100}
    /\ rate \in {Rat(0, 1), Rat(1, 2)}
    /\ mc_years = RunYears
    /\ mc_sims = RunSims

Next ==
    \/ LoadMarketData
    \/ OptimizePortfolio(0)
    \/ CalculatePerformance
    \/ GrowthScenarios
    \/ MonteCarloSimulation
    \/ MonteCarloOutcomes

Spec == Init /\ [][Next]_vars

\* optimize_portfolio on its own, over every target allocation of the model.
InitOpt ==
    /\ Blank
    /\ pc = "optimize"
    /\ target_allocation \in TargetAllocations
    /\ prices \in {Table(o, <<1, 2, 4>>, <<2, 2, 2>>, <<4, 2, 4>>, <<1, 1, 2>>) : o \in AssetOrders}
    /\ weights = None
    /\ investment_amount = 1
    /\ rate = Rat(0, 1)
    /\ mc_years = 0
    /\ mc_sims = 1

NextOpt == OptimizePortfolio(MaxJitter)

SpecOpt == InitOpt /\ [][NextOpt]_vars

\* calculate_portfolio_performance on its own.
InitPerf ==
    /\ Blank
    /\ pc = "perform"
    /\ target_allocation = <<>>
    /\ prices \in PerfTables
    /\ weights \in PerfWeights
    /\ investment_amount = 1
    /\ rate = Rat(0, 1)
    /\ mc_years = 0
    /\ mc_sims = 1

NextPerf == CalculatePerformance

SpecPerf == InitPerf /\ [][NextPerf]_vars

\* grow on its own.
InitGrow ==
    /\ Blank
    /\ pc = "growth"
    /\ target_allocation = <<>>
    /\ prices = None
    /\ weights = None
    /\ investment_amount \in 1..MaxAmount
    /\ rate \in GrowRates
    /\ mc_years = 0
    /\ mc_sims = 1

NextGrow == GrowthScenarios

SpecGrow == InitGrow /\ [][NextGrow]_vars

\* monte_carlo and the report of its last row on their own.
InitMC ==
    /\ Blank
    /\ pc = "montecarlo"
    /\ target_allocation = <<>>
    /\ prices = None
    /\ weights = None
    /\ investment_amount \in {1, 100}
    /\ rate = Rat(0, 1)
    /\ mc_years \in 0..MCYears
    /\ mc_sims \in 1..MCSims

NextMC == MonteCarloSimulation \/ MonteCarloOutcomes

SpecMC == InitMC /\ [][NextMC]_vars

(***************************************************************************)
(* Properties                                                              *)
(***************************************************************************)
\* The effective bounds as the specification states them, for the asset of
\* an item of the target allocation.
EffLower(item) == Max(Pct(5), item.target - Pct(15))

EffUpper(item) == Min(Pct(70), item.target + Pct(15))

Items == {target_allocation[k] : k \in 1..Len(target_allocation)}

\* optimize_portfolio has returned a weight vector.
Returned == solver_status = "optimal" /\ weights # None

WeightSum == SumSeq([i \in 1..Len(assets) |-> weights[assets[i]]])

\* C1 as stated: the returned (cleaned) weights sum to 1 within 1e-3 and each
\* lies within its asset's effective bound
\* [max(0.05, target - 0.15), min(0.70, target + 0.15)].
C1_CleanedWithinBounds ==
    Returned =>
        /\ Abs(WeightSum - Scale) <= Scale \div 1000
        /\ \A it \in Items :
              EffLower(it) <= weights[it.asset] /\ weights[it.asset] <= EffUpper(it)

\* C1 amended: the returned weights sum to 1 within 1e-3 and each lies within
\* its effective bound widened by half a unit of the 5-decimal rounding; it
\* lies within the bound itself when the bound is a multiple of that unit.
C1_CleanedWithinRoundedBounds ==
    Returned =>
        /\ Abs(WeightSum - Scale) <= Scale \div 1000
        /\ \A it \in Items :
              /\ 2 * (EffLower(it) - weights[it.asset]) <= RoundUnit
              /\ 2 * (weights[it.asset] - EffUpper(it)) <= RoundUnit
              /\ EffLower(it) % RoundUnit = 0 => EffLower(it) <= weights[it.asset]
              /\ EffUpper(it) % RoundUnit = 0 => weights[it.asset] <= EffUpper(it)

\* A weight vector was returned in which the rounding moved a weight that sat
\* on its lower bound below that bound, and the sum off 1.
C1_Witness ==
    /\ Returned
    /\ \E it \in Items : raw_weights[AssetsIndex(assets, it.asset)] = EffLower(it)
                         /\ weights[it.asset] < EffLower(it)
    /\ WeightSum # Scale

\* C2: each asset of the target allocation is constrained by
\* max(5%, target - 15%) from below and min(70%, target + 15%) from above, on
\* the weight at the index of that asset's ticker and on no other, and the whole
\* vector carries the global bounds [5%, 70%].
C2_BoundsOnOwnAsset ==
    constraints # None =>
        /\ Len(constraints) = 2 + 2 * Len(target_allocation)
        /\ constraints[1] = [kind |-> "ge", idx |-> 0, bound |-> Pct(5)]
        /\ constraints[2] = [kind |-> "le", idx |-> 0, bound |-> Pct(70)]
        /\ \A it \in Items :
              \E i \in 1..Len(assets) :
                 /\ assets[i] = it.asset
                 /\ \E k \in 3..Len(constraints) :
                       constraints[k] = [kind |-> "ge", idx |-> i, bound |-> EffLower(it)]
                 /\ \E k \in 3..Len(constraints) :
                       constraints[k] = [kind |-> "le", idx |-> i, bound |-> EffUpper(it)]
        /\ \A k \in 3..Len(constraints) :
              /\ constraints[k].idx \in 1..Len(assets)
              /\ \E it \in Items :
                    /\ it.asset = assets[constraints[k].idx]
                    /\ constraints[k].bound =
                          IF constraints[k].kind = "ge" THEN EffLower(it) ELSE EffUpper(it)

\* The constraints were built for four assets listed in another order than
\* the columns, with bounds that differ from asset to asset.
C2_Witness ==
    /\ constraints # None
    /\ Len(target_allocation) = 4
    /\ assets[1] # target_allocation[1].asset
    /\ EffLower(target_allocation[1]) # EffLower(target_allocation[2])
    /\ solver_status = "optimal"

\* The effective bounds over the universe: those of the item naming the
\* asset, the global ones for an asset the allocation does not name.
UniverseLower(a) ==
    IF \E it \in Items : it.asset = a
    THEN EffLower(CHOOSE it \in Items : it.asset = a) ELSE Pct(5)

UniverseUpper(a) ==
    IF \E it \in Items : it.asset = a
    THEN EffUpper(CHOOSE it \in Items : it.asset = a) ELSE Pct(70)

RECURSIVE SumOver(_, _)
SumOver(S, f) ==
    IF S = {} THEN 0
    ELSE LET a == CHOOSE x \in S : TRUE IN f[a] + SumOver(S \ {a}, f)

Contradictory == \E a \in Tickers : UniverseLower(a) > UniverseUpper(a)

CannotSumToOne ==
    \/ SumOver(Tickers, [a \in Tickers |-> UniverseLower(a)]) > Scale
    \/ SumOver(Tickers, [a \in Tickers |-> UniverseUpper(a)]) < Scale

C4_ZeroVolatilitySharpeNaN ==
    (performance # None /\ performance.volatility.k = "fin"
        /\ performance.volatility.sq.n = 0)
    => performance.sharpe_ratio.k = "nan"

\* C5: with at least 2 observations the volatility is defined and >= 0 and
\* the max drawdown is defined and <= 0.
C5_VolatilityAndDrawdownDefined ==
    (performance # None /\ Rows(prices.data) >= 2) =>
        /\ performance.volatility.k = "fin"
        /\ performance.volatility.sq.n >= 0
        /\ performance.max_drawdown.k = "fin"
        /\ performance.max_drawdown.v.n <= 0

\* C6: grow(amount, rate) is a path of exactly 11 values, years 0..10, with
\* value[0] = amount and value[t] = value[t-1] * (1 + rate), the path of the
\* compounding primitive; with rate 0 every value is amount.
C6_GrowIsCompounding ==
    calls.growth = 1 =>
        /\ DOMAIN path = 0..10
        /\ Cardinality(DOMAIN path) = 11
        /\ path[0] = Rat(investment_amount, 1)
        /\ \A t \in 1..10 : path[t] = RMul(path[t - 1], RAdd(Rat(1, 1), rate))
        /\ rate = Rat(0, 1) => \A t \in 0..10 : path[t] = Rat(investment_amount, 1)

\* A path was computed at rate 1/2: its last value is amount * (3/2)^10.
C6_Witness ==
    /\ calls.growth = 1
    /\ rate = Rat(1, 2)
    /\ investment_amount = 2
    /\ path[10] = Rat(59049, 512)

FinalRow == RowSeq(paths[mc_years], mc_sims)

\* C7: the reported outcomes of the final year are ordered, 5th percentile
\* <= 50th <= 95th, and all three lie between the least and the greatest
\* final value of the same set of paths.
C7_PercentilesOrdered ==
    calls.report = 1 =>
        /\ report.worst <= report.median
        /\ report.median <= report.best
        /\ \E s \in 1..mc_sims : format_0f(FinalRow[s]) <= report.worst
        /\ \E s \in 1..mc_sims : report.best <= format_0f(FinalRow[s])

\* A report over at least three paths, some ending below zero, with three
\* different percentiles.
C7_Witness ==
    /\ calls.report = 1
    /\ mc_sims >= 3
    /\ report.worst < report.median
    /\ report.median < report.best
    /\ \E s \in 1..mc_sims : FinalRow[s].n < 0

\* C8: monte_carlo yields sims paths of years + 1 values from years * sims
\* draws; every path starts at initial and paths[t][s] =
\* paths[t-1][s] * (1 + returns[t-1][s]): a path is compounded from its own
\* draws only.
C8_PathsCompoundOwnDraws ==
    calls.montecarlo = 1 =>
        /\ DOMAIN paths = 0..mc_years
        /\ DOMAIN returns = 0..(mc_years - 1)
        /\ \A t \in 0..mc_years : DOMAIN paths[t] = 1..mc_sims
        /\ \A t \in 0..(mc_years - 1) : DOMAIN returns[t] = 1..mc_sims
        /\ \A s \in 1..mc_sims :
              /\ paths[0][s] = Rat(investment_amount, 1)
              /\ \A t \in 1..mc_years :
                    paths[t][s] = RMul(paths[t - 1][s], RAdd(Rat(1, 1), returns[t - 1][s]))

\* Two years, several paths, and two paths that ended apart.
C8_Witness ==
    /\ calls.montecarlo = 1
    /\ mc_years >= 2
    /\ mc_sims >= 2
    /\ paths[mc_years][1] # paths[mc_years][2]
    /\ returns[0][1] # returns[1][1]

Stages == <<"load", "optimize", "perform", "growth", "montecarlo", "report">>

\* What each stage leaves behind.
StageResult(k) ==
    CASE k = 1 -> prices [] k = 2 -> weights [] k = 3 -> performance
      [] k = 4 -> path   [] k = 5 -> paths   [] OTHER -> report

\* The state of a failed run: the stage that failed ran once, produced
\* nothing, and no stage after it ran or produced anything.
FailedRunIsClean ==
    /\ \A k \in 1..Len(Stages) : calls[Stages[k]] <= 1
    /\ solver_status \in {"infeasible", "solver_error"} => error = "OptimizationError"
    /\ error # "none" =>
          /\ pc = "failed"
          /\ \E f \in 1..Len(Stages) :
                /\ \A k \in 1..f : calls[Stages[k]] = 1
                /\ \A k \in f..Len(Stages) : StageResult(k) = None
                /\ \A k \in (f + 1)..Len(Stages) : calls[Stages[k]] = 0

GivenLower(i) == BoxLo(constraints, i)

GivenUpper(i) == BoxHi(constraints, i)

\* C10: for each shipped archetype the bounds optimize_portfolio derives are
\* jointly feasible (lower <= upper for every asset, the lower bounds sum to
\* at most 1, the upper bounds to at least 1), so the allocator never fails a
\* selectable client for infeasible constraints.
C10_ArchetypesFeasible ==
    /\ solver_status # "infeasible"
    /\ constraints # None =>
          /\ \E key \in DOMAIN clients : target_allocation = clients[key]
          /\ \A i \in 1..Len(assets) : GivenLower(i) <= GivenUpper(i)
          /\ SumSeq([i \in 1..Len(assets) |-> GivenLower(i)]) <= Scale
          /\ SumSeq([i \in 1..Len(assets) |-> GivenUpper(i)]) >= Scale

\* The allocator returned weights for the Defined-Contribution archetype,
\* whose equity target sits on the global maximum.
C10_Witness ==
    /\ target_allocation = clients.DC
    /\ solver_status = "optimal"
    /\ weights # None
    /\ weights["SPY"] = Pct(70)

====
